---- MODULE Spec2Model ----
(***************************************************************************)
(* A model of kubeglue (src/kubeglue/kubeglue.py): the noun -> verb        *)
(* pipeline interpreter `runner`, the port specifier parser                *)
(* PortForward.parse, and the relay script PORT_FORWARD_SCRIPT.            *)
(*                                                                         *)
(* Python strings are sequences of one-character strings, so that strip,   *)
(* count, split and int are computed the way the interpreter computes them.*)
(* Python values are records tagged by the field k.                        *)
(*                                                                         *)
(* Five specifications share the variables:                                *)
(*   Spec       one run of runner(args, remaining) against a cluster       *)
(*   ParseSpec  PortForward.parse applied to every bounded string          *)
(*   RelaySpec  one execution of PORT_FORWARD_SCRIPT by bash               *)
(*   QuerySpec  grep_pods applied to bounded listings and patterns         *)
(*   ProbeSpec  the env probe of exec applied to bounded output lines      *)
(***************************************************************************)
EXTENDS Integers, Sequences, FiniteSets, TLC

VARIABLES
    args,       \* runner: the parsed command line (argparse namespace)
    do_next,    \* runner: the stage names still to run
    output,     \* runner: the current output threaded between the stages
    index,      \* runner: the index still to be applied, or None
    code,       \* runner: the exit code variable of runner
    pc,         \* runner: the position in runner
    raised,     \* runner: the exception that ended the run, "" when none
    exitCode,   \* runner: the exit code of the process, -1 while it runs
    log,        \* runner: what the run did so far, in order (calls, commands, prints)
    portspec,   \* parse: the string handed to PortForward.parse
    parsed,     \* parse: its result, or Pending
    session,    \* relay: the values substituted into PORT_FORWARD_SCRIPT
    rpc,        \* relay: the line of the script bash is at
    trapSet,    \* relay: whether `trap cleanup EXIT` has been executed
    rlog,       \* relay: the commands the script has issued, in order
    globPattern,\* query: the glob pattern handed to grep_pods
    upstream,   \* query: the object handed to grep_pods, or None
    cluster,    \* query: the pods kubectl lists, with their labels
    matched,    \* query: what grep_pods returned, or Pending
    envLines,   \* probe: the stdout lines of `env` in the container
    probed      \* probe: the mapping exec builds from them, or Pending

runnerVars == <<args, do_next, output, index, code, pc, raised, exitCode, log>>
parseVars == <<portspec, parsed>>
relayVars == <<session, rpc, trapSet, rlog>>
queryVars == <<globPattern, upstream, cluster, matched>>
probeVars == <<envLines, probed>>
vars == <<args, do_next, output, index, code, pc, raised, exitCode, log,
          portspec, parsed, session, rpc, trapSet, rlog,
          globPattern, upstream, cluster, matched, envLines, probed>>

----------------------------------------------------------------------------
(* Bounds *)

\* longest port specifier ParseSpec hands to PortForward.parse
MaxSpecLen == 4
\* most pods / deployments a cluster listing returns
MaxListed == 2
\* largest index flag (-1 .. -MaxIndex) a run is given; the code accepts up to -99
MaxIndex == 3
\* longest output line ProbeSpec hands to the env probe of exec
MaxEnvLen == 4

----------------------------------------------------------------------------
(* Python values *)

None == [k |-> "none"]
IntV(n) == [k |-> "int", v |-> n]
StrV(s) == [k |-> "str", v |-> s]
\* a list or a generator: anything iterable() answers True for
Iter(items) == [k |-> "iter", items |-> items]
Raise(exc) == [k |-> "raise", exc |-> exc]
Pending == [k |-> "pending"]

POSTGRES_PORT == 5432

----------------------------------------------------------------------------
(* str methods *)

Whitespace == {" "}
Digits == {"0", "1", "2", "3", "4", "5", "6", "7", "8", "9"}

DigitVal(c) ==
    CASE c = "0" -> 0 [] c = "1" -> 1 [] c = "2" -> 2 [] c = "3" -> 3
      [] c = "4" -> 4 [] c = "5" -> 5 [] c = "6" -> 6 [] c = "7" -> 7
      [] c = "8" -> 8 [] c = "9" -> 9

DigitChar(d) ==
    CASE d = 0 -> "0" [] d = 1 -> "1" [] d = 2 -> "2" [] d = 3 -> "3"
      [] d = 4 -> "4" [] d = 5 -> "5" [] d = 6 -> "6" [] d = 7 -> "7"
      [] d = 8 -> "8" [] d = 9 -> "9"

RECURSIVE LStrip(_)
LStrip(s) == IF s # <<>> /\ Head(s) \in Whitespace THEN LStrip(Tail(s)) ELSE s

RECURSIVE RStrip(_)
RStrip(s) ==
    IF s # <<>> /\ s[Len(s)] \in Whitespace
    THEN RStrip(SubSeq(s, 1, Len(s) - 1))
    ELSE s

\* str.strip()
Strip(s) == RStrip(LStrip(s))

\* str.count(ch)
RECURSIVE Count(_, _)
Count(s, ch) ==
    IF s = <<>> THEN 0
    ELSE (IF Head(s) = ch THEN 1 ELSE 0) + Count(Tail(s), ch)

\* str.split(ch): the pieces between the occurrences of ch, always at least one
RECURSIVE SplitFrom(_, _, _)
SplitFrom(s, ch, cur) ==
    IF s = <<>> THEN <<cur>>
    ELSE IF Head(s) = ch THEN <<cur>> \o SplitFrom(Tail(s), ch, <<>>)
    ELSE SplitFrom(Tail(s), ch, Append(cur, Head(s)))

Split(s, ch) == SplitFrom(s, ch, <<>>)

\* the digits of an int literal: digits, single underscores only between digits
DigitGroupOk(s) ==
    /\ s # <<>>
    /\ \A i \in 1..Len(s) : s[i] \in Digits \cup {"_"}
    /\ s[1] # "_" /\ s[Len(s)] # "_"
    /\ \A i \in 1..(Len(s) - 1) : ~(s[i] = "_" /\ s[i + 1] = "_")

RECURSIVE DigitsValue(_, _)
DigitsValue(s, acc) ==
    IF s = <<>> THEN acc
    ELSE IF Head(s) = "_" THEN DigitsValue(Tail(s), acc)
    ELSE DigitsValue(Tail(s), 10 * acc + DigitVal(Head(s)))

\* int(s): surrounding whitespace dropped, an optional sign, then the digits;
\* anything else is a ValueError
PyInt(s) ==
    LET t == Strip(s)
        signed == t # <<>> /\ t[1] \in {"+", "-"}
        body == IF signed THEN Tail(t) ELSE t
    IN  IF DigitGroupOk(body)
        THEN IntV((IF signed /\ t[1] = "-" THEN -1 ELSE 1) * DigitsValue(body, 0))
        ELSE Raise("ValueError")

\* str(n) of an int n >= 0, as f"{n}" formats it
RECURSIVE DecStr(_)
DecStr(n) ==
    IF n < 10 THEN <<DigitChar(n)>>
    ELSE Append(DecStr(n \div 10), DigitChar(n % 10))

----------------------------------------------------------------------------
(* PortForward *)

PortForward(host_port, pod_port, remote_ip) ==
    [k |-> "PortForward", host_port |-> host_port, pod_port |-> pod_port,
     remote_ip |-> remote_ip]

has_remote_ip(fwd) == fwd.remote_ip # None

\* PortForward.parse host field: None when blank, int(host) otherwise
HostPort(host) == IF Strip(host) = <<>> THEN None ELSE PyInt(host)

\* the dataclass once both ints are evaluated: a failing int() raises instead
MakePortForward(host_port, pod_port, remote_ip) ==
    IF host_port.k = "raise" THEN host_port
    ELSE IF pod_port.k = "raise" THEN pod_port
    ELSE PortForward(host_port, pod_port, remote_ip)

PortForwardParseSwapped(spec) ==
    LET ps == Strip(spec)
        colons == Count(ps, ":")
        parts == Split(ps, ":")
    IN  IF colons = 2
        THEN MakePortForward(HostPort(parts[1]), PyInt(parts[3]), StrV(parts[2]))
        ELSE IF colons = 1
        THEN MakePortForward(HostPort(parts[2]), PyInt(parts[1]), None)
        ELSE IF colons = 0
        THEN MakePortForward(PyInt(ps), PyInt(ps), None)
        ELSE Raise("ValueError")

PortForwardParse(spec) ==
    LET ps == Strip(spec)
        colons == Count(ps, ":")
        parts == Split(ps, ":")
    IN  IF colons = 2
        THEN MakePortForward(HostPort(parts[1]), PyInt(parts[3]), StrV(parts[2]))
        ELSE IF colons = 1
        THEN MakePortForward(HostPort(parts[1]), PyInt(parts[2]), None)
        ELSE IF colons = 0
        THEN MakePortForward(PyInt(ps), PyInt(ps), None)
        ELSE Raise("ValueError")

\* the characters ParseSpec builds port specifiers from
SpecAlphabet == {"1", "2", ":", "x", " "}

RECURSIVE StringsUpTo(_, _)
StringsUpTo(alphabet, n) ==
    IF n = 0 THEN {<<>>}
    ELSE LET shorter == StringsUpTo(alphabet, n - 1)
         IN  shorter \cup {Append(s, c) : s \in shorter, c \in alphabet}

----------------------------------------------------------------------------
(* KObject *)

\* str.split() without arguments: the runs of non-whitespace characters
RECURSIVE ColumnsFrom(_, _)
ColumnsFrom(s, cur) ==
    IF s = <<>> THEN (IF cur = <<>> THEN <<>> ELSE <<cur>>)
    ELSE IF Head(s) \in Whitespace
    THEN (IF cur = <<>> THEN <<>> ELSE <<cur>>) \o ColumnsFrom(Tail(s), <<>>)
    ELSE ColumnsFrom(Tail(s), Append(cur, Head(s)))

columns(line) == ColumnsFrom(line, <<>>)

Min(a, b) == IF a <= b THEN a ELSE b

\* dict(zip(headers, values)): the shorter of the two decides the keys
ZipDict(headers, values) ==
    LET n == Min(Len(headers), Len(values))
    IN  [h \in {headers[i] : i \in 1..n} |->
            values[CHOOSE i \in 1..n : headers[i] = h]]

\* the dataclass with __post_init__ applied
KObject(line, type_, headers) ==
    [k |-> "KObject", line |-> line, type_ |-> type_, headers |-> headers,
     attributes |-> ZipDict(headers, columns(line))]

is_pod(kobj) == kobj.type_ = "pod"
is_deployment(kobj) == kobj.type_ = "deployment"

\* KObject.__getattr__: a KeyError for a header the line had no value for
HasAttr(kobj, name) == name \in DOMAIN kobj.attributes
Attr(kobj, name) == kobj.attributes[name]

\* KObject.to_specifier: f"{type_}/{name}", kept as the pair
to_specifier(kobj) == <<kobj.type_, Attr(kobj, "name")>>

PodHeaders == <<"namespace", "name", "ready", "status", "restarts", "age">>
DeploymentHeaders ==
    <<"namespace", "name", "ready", "up-to-date", "available", "age",
      "containers", "images", "selector">>

----------------------------------------------------------------------------
(* grep_objects *)

UpperLetters ==
    <<"A", "B", "C", "D", "E", "F", "G", "H", "I", "J", "K", "L", "M",
      "N", "O", "P", "Q", "R", "S", "T", "U", "V", "W", "X", "Y", "Z">>
LowerLetters ==
    <<"a", "b", "c", "d", "e", "f", "g", "h", "i", "j", "k", "l", "m",
      "n", "o", "p", "q", "r", "s", "t", "u", "v", "w", "x", "y", "z">>

\* re.I: characters compare by their lower-case form
Lower(c) ==
    IF \E i \in 1..26 : UpperLetters[i] = c
    THEN LowerLetters[CHOOSE i \in 1..26 : UpperLetters[i] = c]
    ELSE c

\* the regular expression fnmatch.translate(p) builds, matched against all of s:
\* "*" is any run, "?" any one character, every other character itself
\* (patterns here hold no "[", the one other character fnmatch treats specially)
RECURSIVE GlobFullMatch(_, _)
GlobFullMatch(p, s) ==
    IF p = <<>> THEN s = <<>>
    ELSE IF Head(p) = "*"
    THEN GlobFullMatch(Tail(p), s) \/ (s # <<>> /\ GlobFullMatch(p, Tail(s)))
    ELSE IF Head(p) = "?"
    THEN s # <<>> /\ GlobFullMatch(Tail(p), Tail(s))
    ELSE s # <<>> /\ Lower(Head(p)) = Lower(Head(s)) /\ GlobFullMatch(Tail(p), Tail(s))

\* re.search: a match may start anywhere, and the translated pattern ends in \Z
GlobSearch(p, s) ==
    \E i \in 1..(Len(s) + 1) : GlobFullMatch(p, SubSeq(s, i, Len(s)))

WrapPatternBare(pattern) == Strip(pattern)

\* the pattern with "*" put before and after it when absent
WrapPattern(pattern) ==
    LET p0 == Strip(pattern)
        p1 == IF p0 # <<>> /\ Head(p0) = "*" THEN p0 ELSE <<"*">> \o p0
    IN  IF p1[Len(p1)] = "*" THEN p1 ELSE Append(p1, "*")

\* grep_objects with its default transform, lambda o: o.line
grep_objects(pattern, kobjs) ==
    SelectSeq(kobjs, LAMBDA o : GlobSearch(WrapPattern(pattern), o.line))

----------------------------------------------------------------------------
(* The cluster behind kubectl: what a listing or a query can answer *)

RECURSIVE Join(_)
Join(cols) ==
    IF cols = <<>> THEN <<>>
    ELSE IF Len(cols) = 1 THEN cols[1]
    ELSE cols[1] \o <<" ">> \o Join(Tail(cols))

\* one line of `kubectl get pods -A --no-headers=true`
PodRow(ns, name) == Join(<<ns, name, <<"1">>, <<"R">>, <<"0">>, <<"9">>>>)
\* one line of `kubectl get deployments -A --no-headers=true -o wide`
DeploymentRow(ns, name, selector) ==
    Join(<<ns, name, <<"1">>, <<"1">>, <<"1">>, <<"9">>, <<"c">>, <<"i">>, selector>>)

\* the pods that may exist, with the label kubectl's --selector compares
PodCatalogue ==
    << [row |-> PodRow(<<"n">>, <<"a">>), label |-> <<"s">>],
       [row |-> PodRow(<<"n">>, <<"a", "b">>), label |-> <<"s">>],
       [row |-> PodRow(<<"m">>, <<"b">>), label |-> <<"t">>] >>

DeploymentCatalogue ==
    << DeploymentRow(<<"n">>, <<"a">>, <<"s">>),
       DeploymentRow(<<"m">>, <<"a", "b">>, <<"t">>) >>

RECURSIVE Pick(_, _, _)
Pick(catalogue, chosen, i) ==
    IF i > Len(catalogue) THEN <<>>
    ELSE (IF i \in chosen THEN <<catalogue[i]>> ELSE <<>>)
         \o Pick(catalogue, chosen, i + 1)

\* the listings of at most MaxListed objects, in the cluster's order
Listings(catalogue) ==
    {Pick(catalogue, chosen, 1) :
        chosen \in {c \in SUBSET (1..Len(catalogue)) : Cardinality(c) <= MaxListed}}

LinkerdProxy == <<"l", "i", "n", "k", "e", "r", "d", "-", "p", "r", "o", "x", "y">>
Linkerd == <<"l", "i", "n", "k", "e", "r", "d">>

\* first stdout line of the jsonpath query for the container names
ContainerAnswers == {<<"c">>, LinkerdProxy \o <<" ", "c">>, <<>>}

PostgresUser == <<"P", "O", "S", "T", "G", "R", "E", "S", "_", "U", "S", "E", "R">>
PgUser == <<"P", "G", "_", "U", "S", "E", "R">>
DbUser == <<"D", "B", "_", "U", "S", "E", "R">>

\* stdout lines of `env` run in the container
EnvAnswers ==
    { <<PostgresUser \o <<"=", "u">>, DbUser \o <<"=", "v">>>>,
      <<<<"H", "=", "x", "=", "y">>>> }

NoFailure == 0
\* a stage issues at most this many kubectl commands (copy and exec: three)
MaxCalls == 3

\* what the cluster answers during one stage; fail is the ordinal of the kubectl
\* command that exits non-zero, NoFailure when none does
World(pods, deps, conts, env, fail) ==
    [pods |-> pods, deps |-> deps, containers |-> conts, env |-> env, fail |-> fail]

----------------------------------------------------------------------------
(* Stage results: the value returned or the exception raised, and what was done *)

R(out, ev) == [out |-> out, ev |-> ev]
Event(ev, what, on) == [ev |-> ev, what |-> what, on |-> on]
IsRaise(v) == v.k = "raise"

\* command(...) with check=True: the n-th command of the stage; a non-zero exit
\* raises CalledProcessError (a listing also records the stdout it captured, as
\* an event "stdout")
kubectl(n, argv, w) ==
    R(IF w.fail = n THEN Raise("CalledProcessError") ELSE None,
      <<Event("kubectl", argv.cmd, argv)>>)

\* lines(buffer): the stdout split at newlines, each line stripped; stdout ends
\* with a newline, so the last piece is empty
lines(rows) == [i \in 1..(Len(rows) + 1) |-> IF i <= Len(rows) THEN Strip(rows[i]) ELSE <<>>]

NonBlank(ls) == SelectSeq(ls, LAMBDA line : Len(Strip(line)) > 0)

KObjectsOf(ls, type_, headers) ==
    LET kept == NonBlank(ls)
    IN  [i \in 1..Len(kept) |-> KObject(kept[i], type_, headers)]

get_pods(selector, w, n) ==
    LET call == kubectl(n, [cmd |-> "get", kind |-> "pods", selector |-> selector], w)
        rows == SelectSeq(w.pods, LAMBDA p : selector = None \/ selector = StrV(p.label))
        stdout == [i \in 1..Len(rows) |-> rows[i].row]
    IN  IF IsRaise(call.out) THEN call
        ELSE R(Iter(KObjectsOf(lines(stdout), "pod", PodHeaders)),
               call.ev \o <<Event("stdout", "pods", stdout)>>)

get_deployments(w, n) ==
    LET call == kubectl(n, [cmd |-> "get", kind |-> "deployments", selector |-> None], w)
    IN  IF IsRaise(call.out) THEN call
        ELSE R(Iter(KObjectsOf(lines(w.deps), "deployment", DeploymentHeaders)),
               call.ev \o <<Event("stdout", "deployments", w.deps)>>)

\* abort(message): the message is printed and sys.exit(1) raises SystemExit
abort(message) == R(Raise("SystemExit"), <<Event("print", "error", message)>>)

\* return grep_objects(pattern, listed), unless the listing raised
GrepListed(pattern, listed) ==
    IF IsRaise(listed.out) THEN listed
    ELSE R(Iter(grep_objects(pattern, listed.out.items)), listed.ev)

\* grep_pods(pattern, kobj): kobj is the previous stage's output
grep_pods(pattern, kobj, w) ==
    IF kobj # None /\ kobj.k # "KObject"
    THEN R(Raise("AttributeError"), <<>>)
    ELSE IF kobj # None /\ ~is_deployment(kobj)
    THEN abort("deployment object expected")
    ELSE IF kobj # None /\ ~HasAttr(kobj, "selector")
    THEN R(Raise("KeyError"), <<>>)
    ELSE GrepListed(pattern,
            get_pods(IF kobj = None THEN None ELSE StrV(Attr(kobj, "selector")), w, 1))

grep_deployments(pattern, w) == GrepListed(pattern, get_deployments(w, 1))

----------------------------------------------------------------------------
(* The verbs *)

Proc(argv) == [k |-> "CompletedProcess", args |-> argv]

\* iterable(thing): lists and generators; not str, None, KObject, CompletedProcess
iterable(thing) == thing.k = "iter"

\* head(thing): the first element of an iterable, None when it has none
head(thing) ==
    IF iterable(thing)
    THEN (IF thing.items = <<>> THEN None ELSE thing.items[1])
    ELSE thing

\* take(lines, n): enumerate from 1, the element numbered n, None when exhausted
RECURSIVE TakeFrom(_, _, _)
TakeFrom(items, i, n) ==
    IF items = <<>> THEN None
    ELSE IF i = n THEN Head(items)
    ELSE TakeFrom(Tail(items), i + 1, n)

TakeZeroBased(items, n) == TakeFrom(items, 0, n)

take(items, n) == TakeFrom(items, 1, n)

has_third(items) == Len(items) >= 3

\* has_second(g) of singleton_only
has_second(items) == Len(items) >= 2

\* describe(kobj): one "key: value" per attribute, in header order
describe(kobj) ==
    IF kobj.k # "KObject" THEN R(Raise("AttributeError"), <<>>)
    ELSE LET present == SelectSeq(kobj.headers, LAMBDA h : HasAttr(kobj, h))
         IN  R(Iter([i \in 1..Len(present) |->
                        StrV(<<present[i], Attr(kobj, present[i])>>)]), <<>>)

\* the jsonpath query containers() and image() share
JsonpathQuery(kobj, what, w, n) ==
    IF ~(HasAttr(kobj, "namespace") /\ HasAttr(kobj, "name"))
    THEN R(Raise("KeyError"), <<>>)
    ELSE LET call == kubectl(n, [cmd |-> "get", kind |-> what,
                                 namespace |-> Attr(kobj, "namespace"),
                                 target |-> to_specifier(kobj)], w)
             names == columns(lines(<<w.containers>>)[1])
         IN  IF IsRaise(call.out) THEN call
             ELSE R(Iter([i \in 1..Len(names) |-> StrV(names[i])]), call.ev)

containers(kobj, w, n) ==
    IF kobj.k # "KObject" THEN R(Raise("AttributeError"), <<>>)
    ELSE JsonpathQuery(kobj, "containers", w, n)

image(kobj, w, n) ==
    IF kobj.k # "KObject" THEN R(Raise("AttributeError"), <<>>)
    ELSE IF is_pod(kobj) THEN R(Raise("NotImplementedError"), <<>>)
    ELSE JsonpathQuery(kobj, "image", w, n)

\* head([c for c in cs if c not in skip]), unless containers() raised
FirstUnskipped(cs) ==
    IF IsRaise(cs.out) THEN cs
    ELSE R(head(Iter(SelectSeq(cs.out.items,
                LAMBDA c : c.v \notin {Linkerd, LinkerdProxy}))), cs.ev)

\* primary_container(kobj): the first container that is not a linkerd sidecar
primary_container(kobj, w, n) == FirstUnskipped(containers(kobj, w, n))

\* singleton_only(thing) for an iterable thing (its use in primary_pod)
singleton_value(thing) ==
    IF iterable(thing)
    THEN (IF has_second(thing.items) THEN Raise("SingleValueException") ELSE head(thing))
    ELSE thing

\* singleton_only(get_pods(...)), unless the listing raised
SingletonListed(pods) ==
    IF IsRaise(pods.out) THEN pods ELSE R(singleton_value(pods.out), pods.ev)

\* primary_pod(kobj): the pod itself, or the one pod of the deployment's selector
primary_pod(kobj, w, n) ==
    IF is_pod(kobj) THEN R(kobj, <<>>)
    ELSE IF ~HasAttr(kobj, "selector") THEN R(Raise("KeyError"), <<>>)
    ELSE SingletonListed(get_pods(StrV(Attr(kobj, "selector")), w, n))

NoneText == <<"N", "o", "n", "e">>
\* str(thing) as an f-string formats it: KObject.__str__ is the line
PyStr(thing) ==
    IF thing = None THEN NoneText
    ELSE IF thing.k = "KObject" THEN thing.line
    ELSE thing.v

\* a kubectl command that is the function's result: the CompletedProcess, after
\* what was done before it
Completed(before, call) ==
    R(IF IsRaise(call.out) THEN call.out ELSE Proc(call.ev[1].on), before \o call.ev)

\* copy, once the container and the pod are resolved
CopyTo(container, pod, kobj, src, dest, w) ==
    IF IsRaise(container.out) THEN container
    ELSE IF IsRaise(pod.out) THEN R(pod.out, container.ev \o pod.ev)
    ELSE Completed(container.ev \o pod.ev,
            kubectl(IF pod.ev = <<>> THEN 2 ELSE 3,
                    [cmd |-> "cp", src |-> src,
                     namespace |-> Attr(kobj, "namespace"),
                     pod |-> PyStr(pod.out), dest |-> dest,
                     container |-> container.out], w))

\* copy(kobj, src, dest)
copy(kobj, src, dest, w) ==
    CopyTo(primary_container(kobj, w, 1), primary_pod(kobj, w, 2), kobj, src, dest, w)

\* str(n) for any int
IntStr(n) == IF n < 0 THEN <<"-">> \o DecStr(-n) ELSE DecStr(n)

\* PortForward.to_specifier: f"{host_port or ''}:{pod_port}"
fwd_to_specifier(fwd) ==
    (IF fwd.host_port = None \/ fwd.host_port.v = 0 THEN <<>> ELSE IntStr(fwd.host_port.v))
    \o <<":">> \o IntStr(fwd.pod_port.v)

\* port_forward(kobj, fwd_spec); fwd_spec is evaluated before the call, so a
\* failed parse is raised first
port_forward(kobj, fwd_spec, w) ==
    IF IsRaise(fwd_spec) THEN R(fwd_spec, <<>>)
    ELSE IF has_remote_ip(fwd_spec) THEN R(Raise("NotImplementedError"), <<>>)
    ELSE IF kobj.k # "KObject" THEN R(Raise("AttributeError"), <<>>)
    ELSE IF ~(HasAttr(kobj, "namespace") /\ HasAttr(kobj, "name"))
    THEN R(Raise("KeyError"), <<>>)
    ELSE Completed(<<>>,
            kubectl(1, [cmd |-> "port-forward",
                        namespace |-> Attr(kobj, "namespace"),
                        target |-> to_specifier(kobj),
                        ports |-> fwd_to_specifier(fwd_spec)], w))

\* the env probe of exec(): each line split at "=", parts[0] the key, parts[1]
\* the value ("" when there is no "="), both stripped; a later line overwrites
EnvKey(line) == Strip(Split(line, "=")[1])
EnvValue(line) ==
    LET parts == Split(line, "=")
    IN  Strip(IF Len(parts) > 1 THEN parts[2] ELSE <<>>)

EnvOf(ls) ==
    [key \in {EnvKey(ls[i]) : i \in 1..Len(ls)} |->
        EnvValue(ls[CHOOSE i \in 1..Len(ls) :
            /\ EnvKey(ls[i]) = key
            /\ \A j \in (i + 1)..Len(ls) : EnvKey(ls[j]) # key])]

\* find_postgres_user(env)
find_postgres_user(env) ==
    IF PostgresUser \in DOMAIN env THEN StrV(env[PostgresUser])
    ELSE IF PgUser \in DOMAIN env THEN StrV(env[PgUser])
    ELSE IF DbUser \in DOMAIN env THEN StrV(env[DbUser])
    ELSE Raise("Exception")

\* the command argument of exec(): tokens, or a function of the probed env
Literal(tokens) == [kind |-> "literal", tokens |-> tokens]
Deferred(which) == [kind |-> "deferred", which |-> which]

\* command(env) if callable(command) else command
BuildCommand(command, env) ==
    IF command.kind = "literal" THEN Iter(command.tokens)
    ELSE LET user == find_postgres_user(env)
         IN  IF IsRaise(user) THEN user
             ELSE IF command.which = "psql"
             THEN Iter(<<"psql", "--quiet", "-t", "-U", user.v>>)
             ELSE Iter(<<"pg_dump", "-s", "-U">> \o columns(user.v))

\* with_command, "--" put first when absent
WithSeparator(tokens) == IF tokens[1] # "--" THEN <<"--">> \o tokens ELSE tokens

ExecTarget(kobj, container) ==
    [namespace |-> Attr(kobj, "namespace"), target |-> to_specifier(kobj),
     container |-> container.out]

\* exec, once the command is built: an empty command fails at with_command[0]
ExecBuilt(before, built, target, n, w) ==
    IF IsRaise(built) THEN R(built, before)
    ELSE IF built.items = <<>> THEN R(Raise("IndexError"), before)
    ELSE Completed(before,
            kubectl(n, [cmd |-> "exec", at |-> target, capture |-> FALSE,
                        command |-> WithSeparator(built.items)], w))

\* exec, once the env probe has run (host_env) or was skipped
ExecProbed(container, probe, kobj, command, host_env, w) ==
    IF IsRaise(probe.out) THEN R(probe.out, container.ev \o probe.ev)
    ELSE ExecBuilt(container.ev \o probe.ev,
            BuildCommand(command, IF host_env THEN EnvOf(lines(w.env)) ELSE <<>>),
            ExecTarget(kobj, container), IF host_env THEN 3 ELSE 2, w)

\* exec, once the container is resolved
ExecIn(container, kobj, command, host_env, w) ==
    IF IsRaise(container.out) THEN container
    ELSE ExecProbed(container,
            IF host_env
            THEN kubectl(2, [cmd |-> "exec", at |-> ExecTarget(kobj, container),
                             capture |-> TRUE, command |-> <<"--", "env">>], w)
            ELSE R(None, <<>>),
            kobj, command, host_env, w)

\* exec(kobj, command, stdin, tty, host_env)
exec(kobj, command, host_env, w) ==
    ExecIn(primary_container(kobj, w, 1), kobj, command, host_env, w)

\* logs, once the container is resolved
LogsIn(container, kobj, rest, w) ==
    IF IsRaise(container.out) THEN container
    ELSE Completed(container.ev,
            kubectl(2, [cmd |-> "logs", namespace |-> Attr(kobj, "namespace"),
                        target |-> to_specifier(kobj),
                        container |-> container.out, rest |-> rest], w))

\* logs(kobj, rest)
logs(kobj, rest, w) == LogsIn(primary_container(kobj, w, 1), kobj, rest, w)

----------------------------------------------------------------------------
(* runner: the stage registry *)

Absent == "<absent>"
Nouns == {"pods", "deployments"}
\* the verbs build_verbs registers
Verbs == {"containers", "describe", "cp", "pods", "image", "exec", "env", "logs",
          "port-forward", "shell", "psql", "pg-dump-schema"}
\* the entries of `actions` wrapped in singleton_only
SingleObjectVerbs == Verbs \ {"pods"}

\* the command each exec-based verb hands to exec()
ExecCommand(name, a) ==
    CASE name = "exec" -> Literal(a.rest)
      [] name = "env" -> Literal(<<"env">>)
      [] name = "shell" -> Literal(<<"/bin/sh">>)
      [] name = "psql" -> Deferred("psql")
      [] name = "pg-dump-schema" -> Deferred("pg_dump")

\* the port specifier port-forward and psql --forward parse
ForwardSpecifier(name, a) ==
    IF name = "psql"
    THEN IntStr(a.forward.v) \o <<":">> \o IntStr(POSTGRES_PORT)
    ELSE a.portspec.v

\* the lambda of actions[name], for the names wrapped in singleton_only
VerbBody(name, last, a, w) ==
    IF name = "containers" THEN containers(last, w, 1)
    ELSE IF name = "cp" THEN copy(last, a.src, a.dest, w)
    ELSE IF name = "describe" THEN describe(last)
    ELSE IF name = "image" THEN image(last, w, 1)
    ELSE IF name = "logs" THEN logs(last, a.rest, w)
    ELSE IF name = "port-forward" \/ (name = "psql" /\ a.forward # None)
    THEN port_forward(last, PortForwardParse(ForwardSpecifier(name, a)), w)
    ELSE exec(last, ExecCommand(name, a), name \in {"psql", "pg-dump-schema"}, w)

\* the wrapped function is entered: recorded, then its body runs
Entered(name, x, r) == R(r.out, <<Event("run", name, x)>> \o r.ev)

Thing(name, x, a, w) == Entered(name, x, VerbBody(name, x, a, w))

SingletonSkipsCheck(name, x, a, w) ==
    Thing(name, IF iterable(x) THEN head(x) ELSE x, a, w)

\* singleton_only(thing) for a callable thing: the function f it returns, applied to x
singleton_only(name, x, a, w) ==
    IF iterable(x) /\ has_second(x.items) THEN R(Raise("SingleValueException"), <<>>)
    ELSE IF iterable(x) /\ Len(x.items) = 0 THEN R(None, <<>>)
    ELSE Thing(name, IF iterable(x) THEN head(x) ELSE x, a, w)

\* the call of the registry entry is recorded, then it runs
Called(name, last, r) == R(r.out, <<Event("stage", name, last)>> \o r.ev)

\* actions[thing_to_do](output)
StageCall(name, last, a, w) ==
    Called(name, last,
        IF name = "pods" THEN grep_pods(a.pattern.v, last, w)
        ELSE IF name = "deployments" THEN grep_deployments(a.pattern.v, w)
        ELSE singleton_only(name, last, a, w))

----------------------------------------------------------------------------
(* runner: the command lines and the cluster's answers *)

\* glob patterns given on the command line: two, three and no rows of a full listing
Patterns == {<<"a">>, <<"r">>, <<"z">>}
\* port specifiers given to port-forward: "1:2", ":2", "1:x:2", "x"
PortSpecs == {<<"1", ":", "2">>, <<":", "2">>, <<"1", ":", "x", ":", "2">>, <<"x">>}
\* the tokens after `exec`
RestChoices == {<<>>, <<"ls">>}
CpSrc == <<"f">>
CpDest == <<"g">>

IndexChoices == {None} \cup {IntV(i) : i \in 1..MaxIndex}

\* the namespaces parse_known_args can return: the verb subparsers hang under the
\* noun subparsers, so a verb comes only with a noun; --json, --verbose, --nostdin
\* and --notty are left at their defaults
ArgsFor(noun, verb, idx, pattern, spec, forward, rest) ==
    [noun |-> noun, verb |-> verb, index |-> idx, pattern |-> pattern,
     portspec |-> spec, forward |-> forward, rest |-> rest,
     src |-> CpSrc, dest |-> CpDest]

CommandLines ==
    {ArgsFor(Absent, Absent, i, None, None, None, <<>>) : i \in IndexChoices}
    \cup
    {ArgsFor(n, v, i, StrV(p), None, None, <<>>) :
        n \in Nouns, v \in {Absent} \cup (Verbs \ {"port-forward"}),
        i \in IndexChoices, p \in Patterns}
    \cup
    {ArgsFor(n, "port-forward", i, StrV(p), StrV(ps), None, <<>>) :
        n \in Nouns, i \in IndexChoices, p \in Patterns, ps \in PortSpecs}
    \cup
    {ArgsFor(n, "psql", i, StrV(p), None, IntV(1), <<>>) :
        n \in Nouns, i \in IndexChoices, p \in Patterns}
    \cup
    {ArgsFor(n, "exec", i, StrV(p), None, None, <<"ls">>) :
        n \in Nouns, i \in IndexChoices, p \in Patterns}

DefaultContainers == <<"c">>
DefaultEnv == <<PostgresUser \o <<"=", "u">>>>

\* the answers that matter to the stage `name`; what it never asks for is fixed
Worlds(name) ==
    IF name = "pods"
    THEN {World(ps, <<>>, DefaultContainers, DefaultEnv, f) :
            ps \in Listings(PodCatalogue), f \in {NoFailure, 1}}
    ELSE IF name = "deployments"
    THEN {World(<<>>, ds, DefaultContainers, DefaultEnv, f) :
            ds \in Listings(DeploymentCatalogue), f \in {NoFailure, 1}}
    ELSE IF name = "cp"
    THEN {World(ps, <<>>, cs, DefaultEnv, f) :
            ps \in Listings(PodCatalogue), cs \in ContainerAnswers, f \in 0..MaxCalls}
    ELSE IF name \in {"psql", "pg-dump-schema"}
    THEN {World(<<>>, <<>>, cs, e, f) :
            cs \in ContainerAnswers, e \in EnvAnswers, f \in 0..MaxCalls}
    ELSE {World(<<>>, <<>>, cs, DefaultEnv, f) :
            cs \in ContainerAnswers, f \in 0..MaxCalls}

----------------------------------------------------------------------------
(* runner *)

\* the names runner can resolve: its locals, and the module's globals (the
\* imports, the definitions, and args and remaining, bound under __main__);
\* `parser` is a local of setup_args and is not among them
RunnerNames ==
    {"args", "remaining", "do_next", "noun", "verb", "actions", "output", "code",
     "index", "thing_to_do",
     "asyncio", "argparse", "functools", "contextmanager", "Iterable", "chain",
     "tee", "fnmatch", "re", "pyjson", "os", "sys", "shlex", "dataclass", "field",
     "Dict", "Iterator", "List", "Optional", "Tuple", "Union", "run",
     "CompletedProcess", "partial", "logging", "log", "DEBUG", "POSTGRES_PORT",
     "PORT_FORWARD_SCRIPT", "todo", "abort", "require", "SingleValueException",
     "PortForward", "NV", "KObject", "inspect", "display", "command", "lines",
     "flatten", "tokenize", "kubectl", "iterable", "head", "take",
     "singleton_only", "find_postgres_user", "columns", "get_pods",
     "get_deployments", "grep_objects", "grep_pods", "grep_deployments",
     "describe", "containers", "image", "primary_container", "primary_pod",
     "copy", "port_forward", "exec", "logs", "setup_args", "runner"}

\* do_next as lines 613-617 build it
DoNext(a) ==
    (IF a.noun # Absent THEN <<a.noun>> ELSE <<>>)
    \o (IF a.verb # Absent THEN <<a.verb>> ELSE <<>>)

\* prepare(thing) of display, json=False: a primitive as it is, repr() otherwise
Rendered(item) ==
    IF item.k = "KObject"
    THEN (IF HasAttr(item, "namespace") /\ HasAttr(item, "name")
          THEN StrV(<<Attr(item, "namespace"), Attr(item, "name")>>)
          ELSE Raise("KeyError"))
    ELSE item

\* display(*args): one bare line for a single argument, numbered lines otherwise;
\* printing stops at the first item whose repr raises
RECURSIVE DisplayFrom(_, _, _)
DisplayFrom(items, i, numbered) ==
    IF i > Len(items) THEN R(None, <<>>)
    ELSE IF IsRaise(Rendered(items[i])) THEN R(Rendered(items[i]), <<>>)
    ELSE LET rest == DisplayFrom(items, i + 1, numbered)
         IN  R(rest.out,
               <<Event("print", "display",
                       [ordinal |-> IF numbered THEN i ELSE 0,
                        text |-> Rendered(items[i])])>> \o rest.ev)

display(items) == DisplayFrom(items, 1, Len(items) # 1)

Running == -1

RunnerInit ==
    /\ args \in CommandLines
    /\ do_next = <<>>
    /\ output = None
    /\ index = None
    /\ code = 0
    /\ pc = "start"
    /\ raised = ""
    /\ exitCode = Running
    /\ log = <<>>

\* lines 613-621 and 684: do_next is built; with nothing to do the help is
\* printed through the name `parser` and the process exits 0
Start ==
    /\ pc = "start"
    /\ do_next' = DoNext(args)
    /\ IF DoNext(args) = <<>>
       THEN IF "parser" \in RunnerNames
            THEN /\ log' = Append(log, Event("print", "help", None))
                 /\ raised' = ""
                 /\ exitCode' = 0
                 /\ pc' = "exit"
            ELSE /\ log' = log
                 /\ raised' = "NameError"
                 /\ exitCode' = 1
                 /\ pc' = "exit"
       ELSE /\ log' = log
            /\ raised' = ""
            /\ exitCode' = Running
            /\ pc' = "loop"
    /\ IF DoNext(args) = <<>>
       THEN UNCHANGED <<output, code, index>>
       ELSE output' = None /\ code' = 0 /\ index' = args.index
    /\ UNCHANGED args

\* where the loop goes after a stage whose output is kept
AfterStage(todo) == IF todo = <<>> THEN "finish" ELSE "loop"

\* lines 686-696: the next stage is popped and called on the current output
\* lines 690-696 for the stage's result r: an exception ends the process with
\* exit code 1 (abort for SingleValueException, the traceback otherwise); None
\* breaks out of the loop
StageReturns(r) ==
    /\ log' = log \o r.ev
    /\ IF IsRaise(r.out)
       THEN /\ raised' = r.out.exc
            /\ exitCode' = 1
            /\ pc' = "exit"
            /\ output' = output
       ELSE /\ raised' = ""
            /\ exitCode' = Running
            /\ output' = r.out
            /\ pc' = IF r.out = None THEN "finish"
                     ELSE IF index # None THEN "select"
                     ELSE AfterStage(Tail(do_next))

CallStage ==
    /\ pc = "loop"
    /\ do_next # <<>>
    /\ \E w \in Worlds(Head(do_next)) :
        StageReturns(StageCall(Head(do_next), output, args, w))
    /\ do_next' = Tail(do_next)
    /\ UNCHANGED <<args, index, code>>

SelectIndexKeepsIndex ==
    /\ pc = "select"
    /\ output' = IF iterable(output) THEN take(output.items, index.v) ELSE None
    /\ index' = index
    /\ pc' = AfterStage(do_next)
    /\ UNCHANGED <<args, do_next, code, raised, exitCode, log>>

\* lines 697-702: the index is applied to the stage's output and cleared
SelectIndex ==
    /\ pc = "select"
    /\ output' = IF iterable(output) THEN take(output.items, index.v) ELSE None
    /\ index' = None
    /\ pc' = AfterStage(do_next)
    /\ UNCHANGED <<args, do_next, code, raised, exitCode, log>>

\* lines 704-716: the final output is displayed and the process exits
ExitCodeAlwaysZero(out, c) == c

\* lines 704-714: code stays 0 for an output, and becomes 1 for None
ExitCodeFor(out, c) == IF out # None THEN c ELSE 1

\* lines 704-716 once display has run: sys.exit(code), or the traceback of
\* an exception display raised
Exits(shown) ==
    /\ log' = log \o shown.ev
    /\ IF IsRaise(shown.out)
       THEN /\ raised' = shown.out.exc
            /\ code' = code
            /\ exitCode' = 1
       ELSE /\ raised' = ""
            /\ code' = ExitCodeFor(output, code)
            /\ exitCode' = code'

Finish ==
    /\ pc = "finish"
    /\ Exits(IF output = None \/ output.k = "CompletedProcess" THEN R(None, <<>>)
             ELSE IF iterable(output) THEN display(output.items)
             ELSE display(<<output>>))
    /\ pc' = "exit"
    /\ UNCHANGED <<args, do_next, output, index>>

RunnerNext == Start \/ CallStage \/ SelectIndex \/ Finish

----------------------------------------------------------------------------
(* PortForward.parse on its own *)

ParseInit ==
    /\ portspec \in StringsUpTo(SpecAlphabet, MaxSpecLen)
    /\ parsed = Pending

Parse ==
    /\ parsed = Pending
    /\ parsed' = PortForwardParse(portspec)
    /\ UNCHANGED portspec

----------------------------------------------------------------------------
(* grep_pods on its own *)

\* the lines `kubectl get pods` may print, with the label --selector compares:
\* two pods of one name, an upper-case name, a namespace that holds a letter the
\* name lacks, and a line of one field
QueryCatalogue ==
    << [row |-> PodRow(<<"n">>, <<"a">>), label |-> <<"s">>],
       [row |-> PodRow(<<"m">>, <<"A", "b">>), label |-> <<"s">>],
       [row |-> PodRow(<<"a">>, <<"b">>), label |-> <<"t">>],
       [row |-> <<"a">>, label |-> <<"t">>],
       [row |-> PodRow(<<"m">>, <<"a">>), label |-> <<"t">>] >>

\* glob patterns: plain, upper-case, matching only a namespace or a status,
\* already starred, and padded with blanks
QueryPatterns ==
    {<<"a">>, <<"B">>, <<"n">>, <<"r">>, <<"*", "a">>, <<" ", "a", " ">>}

\* what the pods stage is handed: nothing, a deployment, or a pod
Upstreams ==
    {None,
     KObject(DeploymentRow(<<"n">>, <<"a">>, <<"s">>), "deployment", DeploymentHeaders),
     KObject(DeploymentRow(<<"m">>, <<"b">>, <<"t">>), "deployment", DeploymentHeaders),
     KObject(PodRow(<<"n">>, <<"a">>), "pod", PodHeaders)}

QueryInit ==
    /\ globPattern \in QueryPatterns
    /\ upstream \in Upstreams
    /\ cluster \in Listings(QueryCatalogue)
    /\ matched = Pending

\* grep_pods(pattern, kobj) against a cluster whose kubectl does not fail
Query ==
    /\ matched = Pending
    /\ matched' = grep_pods(globPattern, upstream,
                     World(cluster, <<>>, DefaultContainers, DefaultEnv, NoFailure)).out
    /\ UNCHANGED <<globPattern, upstream, cluster>>

----------------------------------------------------------------------------
(* The env probe of exec on its own *)

ProbeAlphabet == {"K", "=", "v", " "}

ProbeInit ==
    /\ envLines \in {<<line>> : line \in StringsUpTo(ProbeAlphabet, MaxEnvLen)}
    /\ probed = Pending

\* lines 425-441: the dict built from the lines kubectl yields for the stdout
Probe ==
    /\ probed = Pending
    /\ probed' = [k |-> "dict", items |-> EnvOf(lines(envLines))]
    /\ UNCHANGED envLines

----------------------------------------------------------------------------
(* PORT_FORWARD_SCRIPT, run by bash *)

\* the values formatted into the template
Sessions ==
    [temp_pod_name : {<<"t", "1">>, <<"t", "2">>},
     namespace_arg : {<<>>, <<"-", "n", " ", "m">>},
     remote_host : {<<"h">>, <<"1", ".", "2">>},
     remote_port : {5432, 80},
     local_port : {8888, 5432}]

\* the commands of the script with the session's values substituted
RunCommand(ss) ==
    [cmd |-> "run", namespace_arg |-> ss.namespace_arg, pod |-> ss.temp_pod_name,
     listen |-> ss.remote_port, connect |-> <<ss.remote_host, ss.remote_port>>]
WaitCommand(ss) ==
    [cmd |-> "wait", namespace_arg |-> ss.namespace_arg, pod |-> ss.temp_pod_name,
     condition |-> "Ready"]
ForwardCommand(ss) ==
    [cmd |-> "port-forward", namespace_arg |-> ss.namespace_arg,
     pod |-> ss.temp_pod_name, ports |-> <<ss.local_port, ss.remote_port>>]
DeleteCommand(ss) ==
    [cmd |-> "delete", namespace_arg |-> ss.namespace_arg, pod |-> ss.temp_pod_name,
     grace_period |-> 1, wait |-> FALSE]
EchoCommand(ss) == [cmd |-> "echo", pod |-> ss.temp_pod_name]

Issued(command, result) == [command |-> command, result |-> result]

ErrExitOff == FALSE

\* line 31, set -e: a command that fails ends the script
ErrExit == TRUE

TrapFiresOnError(reason) == reason = "failed"

\* line 38, trap cleanup EXIT: the handler runs however the shell exits
TrapFires(reason) == reason \in {"failed", "interrupted", "end"}

\* lines 33-36, cleanup
cleanup(ss, l) ==
    l \o <<Issued(EchoCommand(ss), "ok"), Issued(DeleteCommand(ss), "ok")>>

RelayInit ==
    /\ session \in Sessions
    /\ rpc = "set-e"
    /\ trapSet = FALSE
    /\ rlog = <<>>

\* the shell exits for `reason`, running the EXIT trap if it is set
ExitShell(reason, l) ==
    /\ rlog' = IF trapSet /\ TrapFires(reason) THEN cleanup(session, l) ELSE l
    /\ rpc' = "exited"
    /\ UNCHANGED <<session, trapSet>>

\* a command that ran to its end with `result`: the next line, or the exit
AfterCommand(command, result, nextLine) ==
    IF result = "ok" \/ (result = "failed" /\ ~ErrExit)
    THEN /\ rlog' = Append(rlog, Issued(command, result))
         /\ rpc' = nextLine
         /\ UNCHANGED <<session, trapSet>>
    ELSE ExitShell(result, Append(rlog, Issued(command, result)))

\* lines 31-36: set -e, and cleanup is defined
SetErrExit ==
    /\ rpc = "set-e"
    /\ rpc' = "trap"
    /\ UNCHANGED <<session, trapSet, rlog>>

\* line 38
Trap ==
    /\ rpc = "trap"
    /\ trapSet' = TRUE
    /\ rpc' = "run"
    /\ UNCHANGED <<session, rlog>>

\* line 40: kubectl run creates the socat pod
RunRelay ==
    /\ rpc = "run"
    /\ \E result \in {"ok", "failed", "interrupted"} :
        AfterCommand(RunCommand(session), result, "wait")

\* line 41: kubectl wait --for=condition=Ready
WaitReady ==
    /\ rpc = "wait"
    /\ \E result \in {"ok", "failed", "interrupted"} :
        AfterCommand(WaitCommand(session), result, "forward")

\* line 42: kubectl port-forward is started and blocks
ForwardStart ==
    /\ rpc = "forward"
    /\ rlog' = Append(rlog, Issued(ForwardCommand(session), "running"))
    /\ rpc' = "forwarding"
    /\ UNCHANGED <<session, trapSet>>

\* line 42 ends: the forwarding failed, was interrupted, or returned; it is the
\* last line, so the script ends either way
ForwardEnd ==
    /\ rpc = "forwarding"
    /\ \E result \in {"ok", "failed", "interrupted"} :
        ExitShell(IF result = "ok" THEN "end" ELSE result,
                  [rlog EXCEPT ![Len(rlog)].result = result])

\* SIGINT arrives while bash is between commands
Interrupt ==
    /\ rpc \in {"set-e", "trap", "run", "wait", "forward"}
    /\ ExitShell("interrupted", rlog)

----------------------------------------------------------------------------
(* Specifications *)

RunnerIdle ==
    /\ args = None /\ do_next = <<>> /\ output = None /\ index = None
    /\ code = 0 /\ pc = "idle" /\ raised = "" /\ exitCode = Running /\ log = <<>>
ParseIdle == portspec = <<>> /\ parsed = None
RelayIdle == session = None /\ rpc = "idle" /\ trapSet = FALSE /\ rlog = <<>>
QueryIdle == globPattern = <<>> /\ upstream = None /\ cluster = <<>> /\ matched = None
ProbeIdle == envLines = <<>> /\ probed = None

Init == RunnerInit /\ ParseIdle /\ RelayIdle /\ QueryIdle /\ ProbeIdle

Next ==
    \/ Start /\ UNCHANGED <<parseVars, relayVars, queryVars, probeVars>>
    \/ CallStage /\ UNCHANGED <<parseVars, relayVars, queryVars, probeVars>>
    \/ SelectIndex /\ UNCHANGED <<parseVars, relayVars, queryVars, probeVars>>
    \/ Finish /\ UNCHANGED <<parseVars, relayVars, queryVars, probeVars>>

Spec == Init /\ [][Next]_vars

ParseSpecInit == ParseInit /\ RunnerIdle /\ RelayIdle /\ QueryIdle /\ ProbeIdle
ParseNext == Parse /\ UNCHANGED <<runnerVars, relayVars, queryVars, probeVars>>
ParseSpec == ParseSpecInit /\ [][ParseNext]_vars

RelaySpecInit == RelayInit /\ RunnerIdle /\ ParseIdle /\ QueryIdle /\ ProbeIdle
RelayNext ==
    \/ SetErrExit /\ UNCHANGED <<runnerVars, parseVars, queryVars, probeVars>>
    \/ Trap /\ UNCHANGED <<runnerVars, parseVars, queryVars, probeVars>>
    \/ RunRelay /\ UNCHANGED <<runnerVars, parseVars, queryVars, probeVars>>
    \/ WaitReady /\ UNCHANGED <<runnerVars, parseVars, queryVars, probeVars>>
    \/ ForwardStart /\ UNCHANGED <<runnerVars, parseVars, queryVars, probeVars>>
    \/ ForwardEnd /\ UNCHANGED <<runnerVars, parseVars, queryVars, probeVars>>
    \/ Interrupt /\ UNCHANGED <<runnerVars, parseVars, queryVars, probeVars>>
RelaySpec == RelaySpecInit /\ [][RelayNext]_vars

QuerySpecInit == QueryInit /\ RunnerIdle /\ ParseIdle /\ RelayIdle /\ ProbeIdle
QueryNext == Query /\ UNCHANGED <<runnerVars, parseVars, relayVars, probeVars>>
QuerySpec == QuerySpecInit /\ [][QueryNext]_vars

ProbeSpecInit == ProbeInit /\ RunnerIdle /\ ParseIdle /\ RelayIdle /\ QueryIdle
ProbeNext == Probe /\ UNCHANGED <<runnerVars, parseVars, relayVars, queryVars>>
ProbeSpec == ProbeSpecInit /\ [][ProbeNext]_vars

----------------------------------------------------------------------------
(* What a run did, read off its log *)

StageEvents == SelectSeq(log, LAMBDA e : e.ev = "stage")
\* whether anything recorded after position i is an event of one of `kinds`
LaterEvent(i, kinds) == \E j \in (i + 1)..Len(log) : log[j].ev \in kinds
\* the run is over
Exited == pc = "exit"
\* a relay session was started for this run
RelayStarted == rpc # "idle"

----------------------------------------------------------------------------
(* Claims about the pipeline interpreter, under Spec *)

\* C1: once a stage has run, no later stage is invoked on a none output: a
\* stage output that is none after index selection halts the run, so an index
\* beyond the noun's output never reaches the verb.
C1_HaltsOnNone ==
    \A i \in 2..Len(StageEvents) : StageEvents[i].on # None

\* C2: when the noun stage yields an empty sequence and no index is requested,
\* the verb's operation is never executed, no remote command is issued for it,
\* and the exit code is 1.
C2_EmptyNounShortCircuits ==
    \A i \in 1..Len(log) :
        (log[i].ev = "stage" /\ log[i].on = Iter(<<>>))
        => /\ ~LaterEvent(i, {"run", "kubectl"})
           /\ exitCode # 0
           /\ Exited => exitCode = 1

C2_Witness ==
    /\ Exited
    /\ args.verb = "exec"
    /\ \E i \in 1..Len(log) : log[i].ev = "stage" /\ log[i].on = Iter(<<>>)

\* C5: a single-object verb given exactly one element runs on that element;
\* given the empty sequence it returns none without running; given two or more
\* elements it raises the single-value error without running and the process
\* exits 1; given a scalar it runs on the scalar unchanged.
C5_SingletonEnforced ==
    \A i \in 1..Len(log) :
        (log[i].ev = "stage" /\ log[i].what \in SingleObjectVerbs)
        => LET x == log[i].on
               runs(v) == i < Len(log) /\ log[i + 1] = Event("run", log[i].what, v)
           IN  IF ~iterable(x) THEN runs(x)
               ELSE IF Len(x.items) = 1 THEN runs(x.items[1])
               ELSE IF Len(x.items) = 0
               THEN /\ ~LaterEvent(i, {"run", "kubectl"})
                    /\ output = None /\ raised = ""
               ELSE /\ ~LaterEvent(i, {"run", "kubectl"})
                    /\ raised = "SingleValueException"
                    /\ Exited /\ exitCode = 1

C5_Witness ==
    /\ Exited
    /\ raised = "SingleValueException"
    /\ args.verb = "logs"
    /\ args.index = None

\* C6: a port-forward whose parsed spec has a remote host starts a relay session
\* and issues no direct port-forward; one without a remote host issues a direct
\* port-forward against the resolved object and starts no relay session.
C6_RemoteHostUsesRelay ==
    \A i \in 1..Len(log) :
        (/\ log[i].ev = "run" /\ log[i].what = "port-forward"
         /\ log[i].on.k = "KObject"
         /\ ~IsRaise(PortForwardParse(args.portspec.v)))
        => IF has_remote_ip(PortForwardParse(args.portspec.v))
           THEN /\ RelayStarted
                /\ ~LaterEvent(i, {"kubectl"})
           ELSE /\ ~RelayStarted
                /\ i < Len(log)
                /\ log[i + 1].ev = "kubectl"
                /\ log[i + 1].what = "port-forward"
                /\ log[i + 1].on.target = to_specifier(log[i].on)

\* C7: index selection on a sequence returns its k-th element, counted from 1
\* in the sequence's order, when it has that many, and none otherwise; it never
\* raises.
C7_TakeIsOneBased ==
    [][(pc = "select" /\ iterable(output))
       => /\ output' = IF index.v <= Len(output.items)
                       THEN output.items[index.v]
                       ELSE None
          /\ raised' = "" /\ pc' # "exit"]_vars

C7_Witness ==
    /\ pc \in {"loop", "finish"}
    /\ args.index = IntV(2) /\ index = None
    /\ output.k = "KObject"
    /\ Len(StageEvents) = 1

\* C8: a run that reaches its end exits 0 exactly when its final output is not
\* none, and non-zero when it is none.
C8_ExitCodeFollowsOutput ==
    (Exited /\ raised = "")
    => /\ output # None => exitCode = 0
       /\ output = None => exitCode # 0

C8_Witness ==
    /\ Exited /\ raised = ""
    /\ output.k = "CompletedProcess"
    /\ exitCode = 0

\* C9: with neither a noun nor a verb the run calls no stage, prints the usage
\* and exits 0.
C9_NoStageIsNoOp ==
    (Exited /\ args.noun = Absent /\ args.verb = Absent)
    => /\ StageEvents = <<>>
       /\ \E i \in 1..Len(log) : log[i] = Event("print", "help", None)
       /\ exitCode = 0


----------------------------------------------------------------------------
(* Claims about the relay script, under RelaySpec *)

CommandsIssued(cmds) == SelectSeq(rlog, LAMBDA e : e.command.cmd \in cmds)
Deletions == Len(CommandsIssued({"delete"}))
\* the steps of the session that can fail
FailableSteps == {"run", "wait", "port-forward"}

\* C3: the relay pod's deletion is invoked exactly once on every exit path of a
\* session (provisioning failed, the ready-wait failed, the forwarding failed or
\* was interrupted, or it ended normally), never twice, and the release is
\* registered before the first step that can fail is issued.
C3_TeardownExactlyOnce ==
    /\ Deletions <= 1
    /\ (rpc = "exited" /\ trapSet) => Deletions = 1
    /\ CommandsIssued(FailableSteps) # <<>> => trapSet
    /\ (rpc = "exited" /\ ~trapSet) => rlog = <<>>

C3_Witness ==
    /\ rpc = "exited"
    /\ \E i \in 1..Len(rlog) :
        rlog[i].command.cmd = "wait" /\ rlog[i].result = "failed"
    /\ Deletions = 1

\* the RelaySession state the script is in
RelayState ==
    CASE rpc \in {"set-e", "trap", "run", "wait"} -> "Provisioning"
      [] rpc = "forward" -> "Ready"
      [] rpc = "forwarding" -> "Forwarding"
      [] rpc = "exited" -> "Torn Down"
      [] OTHER -> "None"

AllowedTransitions ==
    {<<"Provisioning", "Ready">>, <<"Ready", "Forwarding">>,
     <<"Forwarding", "Torn Down">>, <<"Provisioning", "Torn Down">>,
     <<"Ready", "Torn Down">>}

\* the forwarding command is issued only after a successful run and wait
ForwardingAfterReady ==
    \A i \in 1..Len(rlog) :
        rlog[i].command.cmd = "port-forward"
        => /\ \E j \in 1..(i - 1) :
                rlog[j].command.cmd = "wait" /\ rlog[j].result = "ok"
           /\ \A j \in 1..(i - 1) : rlog[j].result = "ok"

\* once torn down, the deletion is the last command issued
DeletionIsLast ==
    (rpc = "exited" /\ rlog # <<>>) => rlog[Len(rlog)].command.cmd = "delete"

\* C4: the session moves only Provisioning -> Ready -> Forwarding -> Torn Down,
\* or to Torn Down from any of them; forwarding starts only after the ready-wait
\* succeeded; the deletion is the last action and nothing runs after it.
C4_SessionLifecycle ==
    [][/\ rpc # "exited"
       /\ RelayState' # RelayState => <<RelayState, RelayState'>> \in AllowedTransitions
       /\ ForwardingAfterReady'
       /\ DeletionIsLast']_vars

C4_Witness ==
    /\ rpc = "exited"
    /\ Len(rlog) = 5
    /\ rlog[3].command.cmd = "port-forward"
    /\ rlog[5].command.cmd = "delete"

----------------------------------------------------------------------------
(* Claims about PortForward.parse, under ParseSpec *)

ColonPositions(s) == {i \in 1..Len(s) : s[i] = ":"}
FirstColon(s) == CHOOSE i \in ColonPositions(s) : \A j \in ColonPositions(s) : i <= j
LastColon(s) == CHOOSE i \in ColonPositions(s) : \A j \in ColonPositions(s) : j <= i
Before(s, i) == SubSeq(s, 1, i - 1)
After(s, i) == SubSeq(s, i + 1, Len(s))
Between(s, i, j) == SubSeq(s, i + 1, j - 1)

\* the result is the spec with these fields, or a parse error when a port is
\* not an integer
Yields(result, host, pod, remote) ==
    IF IsRaise(host) \/ IsRaise(pod) THEN IsRaise(result)
    ELSE result = PortForward(host, pod, remote)

\* the colon grammar for the string s, with Host(H) the host port read from H
FollowsGrammar(result, s, Host(_)) ==
    LET n == Cardinality(ColonPositions(s))
    IN  IF n = 0 THEN Yields(result, PyInt(s), PyInt(s), None)
        ELSE IF n = 1
        THEN Yields(result, Host(Before(s, FirstColon(s))),
                    PyInt(After(s, FirstColon(s))), None)
        ELSE IF n = 2
        THEN Yields(result, Host(Before(s, FirstColon(s))),
                    PyInt(After(s, LastColon(s))),
                    StrV(Between(s, FirstColon(s), LastColon(s))))
        ELSE IsRaise(result)

HostNoneWhenEmpty(h) == IF h = <<>> THEN None ELSE PyInt(h)
HostNoneWhenBlank(h) == IF Strip(h) = <<>> THEN None ELSE PyInt(h)

\* C10 as stated: every input follows the colon grammar, the host port being
\* none exactly when H is empty.
C10_GrammarEmptyHost ==
    parsed \notin {Pending, None} => FollowsGrammar(parsed, portspec, HostNoneWhenEmpty)

\* C10 as amended: every input follows the colon grammar, the host port being
\* none when H is empty or holds only whitespace.
C10_GrammarBlankHost ==
    parsed \notin {Pending, None} => FollowsGrammar(parsed, portspec, HostNoneWhenBlank)

C10_Witness ==
    /\ portspec = <<" ", ":", "2">>
    /\ parsed = PortForward(None, IntV(2), None)

----------------------------------------------------------------------------
(* Claims about the query layer, under QuerySpec *)

\* the pods kubectl lists for the selector of the upstream deployment (every
\* pod when nothing is upstream), as objects, in listing order
ListedPods ==
    LET rows == SelectSeq(cluster, LAMBDA p :
                    upstream = None \/ p.label = Attr(upstream, "selector"))
    IN  [i \in 1..Len(rows) |-> KObject(Strip(rows[i].row), "pod", PodHeaders)]

Returned == {matched.items[i] : i \in 1..Len(matched.items)}
Answered == matched.k = "iter"

LowerStr(str) == [i \in 1..Len(str) |-> Lower(str[i])]
\* sub occurs in str, letters compared without case
ContainsNoCase(str, sub) ==
    \E i \in 1..(Len(str) - Len(sub) + 1) :
        LowerStr(SubSeq(str, i, i + Len(sub) - 1)) = LowerStr(sub)

RECURSIVE SubsequenceOf(_, _)
SubsequenceOf(a, b) ==
    IF a = <<>> THEN TRUE
    ELSE IF b = <<>> THEN FALSE
    ELSE IF Head(a) = Head(b) THEN SubsequenceOf(Tail(a), Tail(b))
    ELSE SubsequenceOf(a, Tail(b))

Unstarred(p) == p # <<>> /\ Head(p) # "*" /\ p[Len(p)] # "*"

\* C11: for a non-empty pattern without a leading or trailing "*", every listed
\* object whose name contains the pattern as a substring, letters compared
\* without case, is returned, and the returned objects keep the listing's order.
C11_GlobWrapping ==
    (Answered /\ Unstarred(globPattern))
    => /\ \A i \in 1..Len(ListedPods) :
            (/\ HasAttr(ListedPods[i], "name")
             /\ ContainsNoCase(Attr(ListedPods[i], "name"), globPattern))
            => ListedPods[i] \in Returned
       /\ SubsequenceOf(matched.items, ListedPods)

C11_Witness ==
    /\ Answered
    /\ globPattern = <<"B">>
    /\ upstream = None
    /\ Len(matched.items) = 2
    /\ Attr(matched.items[1], "name") = <<"A", "b">>

\* the wrapped pattern matches the name of the object
NameMatches(o) == GlobSearch(WrapPattern(globPattern), Attr(o, "name"))

\* C13: handed an upstream deployment, the pods stage returns exactly the pods
\* listed for the deployment's selector, in listing order; the glob pattern is
\* not applied to them.
C13_SelectorBypassesGlob ==
    (matched # Pending /\ upstream # None /\ is_deployment(upstream))
    => matched = Iter(ListedPods)

\* C14: a line whose attribute mapping lacks namespace or name fails with a
\* malformed-row error, and no object lacking either is ever produced.
C14_MalformedRowFails ==
    /\ (/\ matched # Pending
        /\ \E i \in 1..Len(ListedPods) :
            ~(HasAttr(ListedPods[i], "namespace") /\ HasAttr(ListedPods[i], "name")))
       => IsRaise(matched)
    /\ Answered
       => \A o \in Returned : HasAttr(o, "namespace") /\ HasAttr(o, "name")

\* C15: membership is decided from the object's name alone: an object whose name
\* does not match the wrapped pattern is never returned, and two listed objects
\* of one name are both returned or both left out.
C15_NameAloneDecides ==
    Answered
    => /\ \A o \in Returned : HasAttr(o, "name") => NameMatches(o)
       /\ \A i, j \in 1..Len(ListedPods) :
            (/\ HasAttr(ListedPods[i], "name") /\ HasAttr(ListedPods[j], "name")
             /\ Attr(ListedPods[i], "name") = Attr(ListedPods[j], "name"))
            => (ListedPods[i] \in Returned <=> ListedPods[j] \in Returned)

----------------------------------------------------------------------------
(* Claims about the env probe, under ProbeSpec *)

\* the one output line, as kubectl's line reader hands it over
ProbedLine == Strip(envLines[1])
Probes == probed.k = "dict"
EqualsPositions == {i \in 1..Len(ProbedLine) : ProbedLine[i] = "="}
FirstEquals == CHOOSE i \in EqualsPositions : \A j \in EqualsPositions : i <= j
\* the text before the first "="
ProbedKey == Strip(Before(ProbedLine, FirstEquals))

\* C12: a line is split on its first "=" only: the key is the text before it,
\* the value everything after it, further "=" included (both without the
\* surrounding blanks).
C12_SplitOnFirstEquals ==
    (/\ Probes
     /\ EqualsPositions # {}
     /\ ProbedKey # <<>>)
    => /\ ProbedKey \in DOMAIN probed.items
       /\ probed.items[ProbedKey] = Strip(After(ProbedLine, FirstEquals))

----------------------------------------------------------------------------
(* Further claims about the pipeline interpreter, under Spec *)

\* the stages invoked so far are the first entries of do_next as it was built
StagesInOrder ==
    /\ Len(StageEvents) <= Len(DoNext(args))
    /\ \A i \in 1..Len(StageEvents) : StageEvents[i].what = DoNext(args)[i]

\* C16: the index is applied at most once per run: to the output of the first
\* stage that returns a non-none output, after which it is cleared; the output
\* of a later stage is never index-selected, and each stage is invoked at most
\* once, noun before verb.
C16_IndexAppliedOnce ==
    [][/\ pc = "select"
          => /\ Len(StageEvents) = 1
             /\ index = args.index
             /\ index' = None
             /\ pc' # "select"
       /\ (pc = "loop" /\ StageEvents = <<>> /\ args.index # None
           /\ raised' = "" /\ output' # None)
          => pc' = "select"
       /\ Len(StageEvents') >= 2 => index' = None
       /\ StagesInOrder']_vars

C16_Witness ==
    /\ Exited
    /\ raised = ""
    /\ args.index # None
    /\ Len(StageEvents) = 2
    /\ iterable(output)
    /\ Len(output.items) = 2

\* the copy commands issued after position i of the log
CopiesAfter(i) ==
    SelectSeq(SubSeq(log, i + 1, Len(log)),
              LAMBDA e : e.ev = "kubectl" /\ e.what = "cp")
\* the pods listed after position i of the log
PodsListedAfter(i) ==
    LET listings == SelectSeq(SubSeq(log, i + 1, Len(log)),
                              LAMBDA e : e.ev = "stdout" /\ e.what = "pods")
    IN  KObjectsOf(lines(listings[1].on), "pod", PodHeaders)

\* C17: cp on a deployment whose selector lists two or more pods raises the
\* single-value error, issues no copy and exits 1; with exactly one pod listed
\* the copy is issued once against that pod; cp on a pod issues the copy against
\* that pod.
C17_CopyNeedsOnePod ==
    \A i \in 1..Len(log) :
        (/\ Exited
         /\ raised \in {"", "SingleValueException"}
         /\ log[i].ev = "run" /\ log[i].what = "cp"
         /\ log[i].on.k = "KObject")
        => IF is_pod(log[i].on)
           THEN /\ Len(CopiesAfter(i)) = 1
                /\ CopiesAfter(i)[1].on.pod = Attr(log[i].on, "name")
           ELSE /\ Len(PodsListedAfter(i)) >= 2
                   => /\ raised = "SingleValueException"
                      /\ CopiesAfter(i) = <<>>
                      /\ exitCode = 1
                /\ Len(PodsListedAfter(i)) = 1
                   => /\ Len(CopiesAfter(i)) = 1
                      /\ CopiesAfter(i)[1].on.pod = Attr(PodsListedAfter(i)[1], "name")

\* C17 without the naming of the target: the copy is issued once, with the
\* listed pod's line as its pod
C17_SingletonPart ==
    \A i \in 1..Len(log) :
        (/\ Exited
         /\ raised \in {"", "SingleValueException"}
         /\ log[i].ev = "run" /\ log[i].what = "cp"
         /\ log[i].on.k = "KObject")
        => IF is_pod(log[i].on)
           THEN /\ Len(CopiesAfter(i)) = 1
                /\ CopiesAfter(i)[1].on.pod = log[i].on.line
           ELSE /\ Len(PodsListedAfter(i)) >= 2
                   => /\ raised = "SingleValueException"
                      /\ CopiesAfter(i) = <<>>
                      /\ exitCode = 1
                /\ Len(PodsListedAfter(i)) = 1
                   => /\ Len(CopiesAfter(i)) = 1
                      /\ CopiesAfter(i)[1].on.pod = PodsListedAfter(i)[1].line

====
